---- MODULE Spec2Model ----
(***************************************************************************)
(* ghost_tunnel: the datapath of src/src/main.rs as a state machine.       *)
(*                                                                         *)
(* One tunnel instance (the "local" instance) is modelled in full: its TX  *)
(* loop, its RX loop and its retransmission task, which share the ledger   *)
(* pending_packets, the cell active_peer and the counter tx_seq.  Every    *)
(* action is one stretch of a task between two points where the task can   *)
(* be interleaved with the others (an .await, or the second of two lock    *)
(* acquisitions).  The remote side is the environment: a peer that runs    *)
(* the same RX code and answers a Transport frame with an Ack, and a       *)
(* network that may lose datagrams and may carry datagrams of any origin.  *)
(*                                                                         *)
(* Byte strings are sequences of words: one word stands for one            *)
(* fixed-width field of the wire format (a u64, the u32 variant index, a   *)
(* length prefix, the 12-byte nonce, the 16-byte tag) or for one payload   *)
(* byte.  Time is in milliseconds.                                         *)
(***************************************************************************)
EXTENDS Integers, Sequences, FiniteSets, TLC

VARIABLES
    now,              \* the monotonic clock read by Instant::now()
    pending_packets,  \* the ledger: seq -> [sent_time, data]
    active_peer,      \* the peer cell: None or an address
    tx_seq,           \* the sequence counter (next value to hand out)
    tx,               \* TX loop: position and locals
    rx,               \* RX loop: position and locals
    rtx,              \* retransmission task: position and locals
    net,              \* replies of the peer in flight to the local socket
    udp_out,          \* datagrams handed to the socket by the last step
    stats,            \* telemetry events sent by the last step
    tun_written,      \* packets written to the TUN device, in order
    inserted_at,      \* history: seq -> time of its ledger insert
    handed,           \* history: seqs whose Transport frame reached send_to
    ack_seen          \* history: <<ack_num, whether that seq had been inserted>>
                      \* of every Ack frame RX processed

vars == <<now, pending_packets, active_peer, tx_seq, tx, rx, rtx, net,
          udp_out, stats, tun_written, inserted_at, handed, ack_seen>>

-----------------------------------------------------------------------------
(* Program constants *)

WINDOW_SIZE == 50
RTO == 200

(* Bounds of the model *)

MaxSeq == 2          \* Spec: packets the TX loop turns into frames
MaxSeqRx == 1        \* SpecRx: packets the TX loop turns into frames
MaxNow == 201        \* the clock stops advancing beyond this
MaxTun == 2          \* TUN writes recorded
MaxSeqW == 52        \* SpecWindow: packets the TX loop turns into frames
MaxSeqT == 2         \* SpecSweep, SpecLossless: packets turned into frames
MaxNowT == 402       \* SpecSweep, SpecLossless: the clock stops beyond this
MaxNowD == 603       \* SpecDead: the clock stops beyond this

None == "none"

-----------------------------------------------------------------------------
(* protocol.rs *)

Transport == 0
Heartbeat == 1
Handshake == 2
Ack == 3
FrameTypes == {Transport, Heartbeat, Handshake, Ack}

new_data(seq, payload) ==
    [header |-> [seq |-> seq, ack_num |-> 0, frame_type |-> Transport],
     payload |-> payload]

new_ack(seq, ack_num) ==
    [header |-> [seq |-> seq, ack_num |-> ack_num, frame_type |-> Ack],
     payload |-> <<>>]

new_heartbeat(seq) ==
    [header |-> [seq |-> seq, ack_num |-> 0, frame_type |-> Heartbeat],
     payload |-> <<>>]

(* bincode, fixed-width little-endian: the three header fields in          *)
(* declaration order, the enum as its variant index, the Vec<u8> as a      *)
(* length prefix followed by its bytes.                                    *)
HeaderWords == 4

serialize(frame) ==
    << frame.header.seq, frame.header.ack_num, frame.header.frame_type,
       Len(frame.payload) >> \o frame.payload

(* Result<T>: Ok(val) or Err *)
Ok(val) == [ok |-> TRUE, val |-> val]
Err == [ok |-> FALSE, val |-> <<>>]

(* deserialize fails on a short buffer, on an unknown variant index and on *)
(* a length prefix that runs past the end; trailing bytes are accepted.    *)
deserialize(bytes) ==
    IF Len(bytes) < HeaderWords THEN Err
    ELSE IF bytes[3] \notin FrameTypes THEN Err
    ELSE IF bytes[4] > Len(bytes) - HeaderWords THEN Err
    ELSE Ok([header |-> [seq |-> bytes[1], ack_num |-> bytes[2],
                         frame_type |-> bytes[3]],
             payload |-> SubSeq(bytes, HeaderWords + 1,
                                HeaderWords + bytes[4])])

-----------------------------------------------------------------------------
(* crypto.rs: packet = nonce | ciphertext | tag *)

Byte == 256
KEY == 17
NONCE_LEN == 1
TAG_LEN == 1

RECURSIVE SumSeq(_)
SumSeq(s) == IF s = <<>> THEN 0 ELSE s[1] + SumSeq(Tail(s))

Keystream(key, nonce, i) == (key + nonce + i) % Byte

Cipher(key, nonce, data) ==
    [i \in 1..Len(data) |-> (data[i] + Keystream(key, nonce, i)) % Byte]

Decipher(key, nonce, ct) ==
    [i \in 1..Len(ct) |-> (ct[i] + Byte - Keystream(key, nonce, i)) % Byte]

Poly(key, nonce, ct) == (key * 3 + nonce + SumSeq(ct) + Len(ct)) % Byte

encrypt_with(key, nonce, data) ==
    LET ct == Cipher(key, nonce, data)
    IN  <<nonce>> \o ct \o <<Poly(key, nonce, ct)>>

encrypt(nonce, data) == encrypt_with(KEY, nonce, data)

decrypt(data) ==
    IF Len(data) < NONCE_LEN THEN Err
    ELSE LET nonce == data[1]
             ciphertext == SubSeq(data, NONCE_LEN + 1, Len(data))
         IN  IF Len(ciphertext) < TAG_LEN THEN Err
             ELSE LET ct == SubSeq(ciphertext, 1, Len(ciphertext) - TAG_LEN)
                      tag == ciphertext[Len(ciphertext)]
                  IN  IF tag # Poly(KEY, nonce, ct) THEN Err
                      ELSE Ok(Decipher(KEY, nonce, ct))

-----------------------------------------------------------------------------
(* compression (the module is not part of the sources at hand): an opaque  *)
(* transform with decompress(compress(x)) = x, which can fail.             *)

COMPRESSED == 120

adaptive_compress(data) == <<COMPRESSED>> \o data

adaptive_decompress(data) ==
    IF Len(data) = 0 \/ data[1] # COMPRESSED THEN Err ELSE Ok(Tail(data))

-----------------------------------------------------------------------------
(* tui.rs: TelemetryUpdate *)

Log(msg, arg) ==
    [kind |-> "Log", msg |-> msg, arg |-> arg, tx_bytes |-> 0, rx_bytes |-> 0]

Throughput(tx_bytes, rx_bytes) ==
    [kind |-> "Throughput", msg |-> "", arg |-> "",
     tx_bytes |-> tx_bytes, rx_bytes |-> rx_bytes]

-----------------------------------------------------------------------------
(* Inputs *)

Packets == { <<69>> }                 \* IP packets the TUN device yields
Nonces == { 5 }                       \* values OsRng draws

(* A read of the TUN device: Ok(n) with the n bytes read, or Err. *)
TapReads ==
    {[ok |-> TRUE, data |-> p] : p \in Packets \cup {<<>>}}
        \cup {[ok |-> FALSE, data |-> <<>>]}

(* send_to: it fails; it succeeds and the datagram is lost; it succeeds    *)
(* and the datagram reaches a peer that replies.                           *)
SendResults == {"err", "lost", "replied"}

(* The hosts that run the tunnel with the session key *)
Peers == {"B"}

(* What the RX loop of a peer sends back for a datagram: an Ack for a      *)
(* Transport frame, nothing otherwise (main.rs lines 250-257).             *)
PeerReplies(bytes, from) ==
    LET frame == deserialize(bytes)
    IN  IF from \in Peers /\ frame.ok /\ frame.val.header.frame_type = Transport
        THEN {[data |-> serialize(new_ack(0, frame.val.header.seq)),
               src |-> from]}
        ELSE {}

Delivered(res, bytes, dst) ==
    IF res = "replied" THEN PeerReplies(bytes, dst) ELSE {}

Datagram(data, src) == [data |-> data, src |-> src]

SealedPacket == encrypt(5, adaptive_compress(<<69>>))

(* Datagrams the peer sends of its own accord: its Transport frames *)
FromPeer == { Datagram(serialize(new_data(1, SealedPacket)), "B") }

(* Acks that are no reply to a frame of the local instance *)
StrayAcks ==
    { Datagram(serialize(new_ack(0, 1)), "B"),
      Datagram(serialize(new_ack(0, MaxSeq + 1)), "M") }

(* Datagrams of any origin *)
Foreign ==
    { Datagram(<<22, 3, 1>>, "M"),                    \* too short to decode
      Datagram(<<22, 3, 7, 0>>, "B"),                 \* unknown variant index
      Datagram(<<1, 0, Transport, 9, 1>>, "M"),       \* length prefix too long
      Datagram(serialize(new_data(2, encrypt_with(KEY + 1, 5, <<69>>))), "M"),
      Datagram(serialize(new_data(3, encrypt(5, <<69>>))), "B"),
      Datagram(serialize(new_heartbeat(1)), "M") }

-----------------------------------------------------------------------------
(* State after bring-up (main.rs lines 101-108): the peer cell holds the   *)
(* --peer argument if one was given, the counter is 1, the ledger empty.   *)

(* tx.packet is frame_buffer[..n], declared outside the loop (line 166):   *)
(* it keeps the bytes of the last read until the next read replaces them.  *)
TxIdle == [pc |-> "gate", packet |-> <<>>, target |-> None, seq |-> 0,
           encoded |-> <<>>]
RxIdle == [pc |-> "recv", buf |-> <<>>, src_addr |-> None, plain |-> <<>>]
RtxIdle == [pc |-> "sleep", retransmits |-> <<>>, remote_addr |-> None]

Init ==
    /\ now = 0
    /\ pending_packets = <<>>
    /\ active_peer \in {None, "B"}
    /\ tx_seq = 1
    /\ tx = TxIdle
    /\ rx = RxIdle
    /\ rtx = RtxIdle
    /\ net = {}
    /\ udp_out = <<>>
    /\ stats = <<>>
    /\ tun_written = <<>>
    /\ inserted_at = <<>>
    /\ handed = {}
    /\ ack_seen = {}

Keys == DOMAIN pending_packets

(* HashMap::insert and HashMap::remove *)
MapInsert(map, k, v) ==
    [x \in (DOMAIN map) \cup {k} |-> IF x = k THEN v ELSE map[x]]

MapRemove(map, k) == [x \in (DOMAIN map) \ {k} |-> map[x]]

-----------------------------------------------------------------------------
(* TX loop, main.rs lines 165-223 *)

TxGate_OffByOne ==
    /\ tx.pc = "gate"
    /\ LET is_full == Cardinality(Keys) > WINDOW_SIZE
       IN  tx' = [tx EXCEPT !.pc = IF is_full THEN "gate_sleep" ELSE "read"]
    /\ udp_out' = <<>>
    /\ stats' = <<>>
    /\ UNCHANGED <<now, pending_packets, active_peer, tx_seq, rx, rtx, net,
                   tun_written, inserted_at, handed, ack_seen>>

(* lines 168-177: the window gate *)
TxGate ==
    /\ tx.pc = "gate"
    /\ LET is_full == Cardinality(Keys) >= WINDOW_SIZE
       IN  tx' = [tx EXCEPT !.pc = IF is_full THEN "gate_sleep" ELSE "read"]
    /\ udp_out' = <<>>
    /\ stats' = <<>>
    /\ UNCHANGED <<now, pending_packets, active_peer, tx_seq, rx, rtx, net,
                   tun_written, inserted_at, handed, ack_seen>>

TxGateWake_NoRecheck ==
    /\ tx.pc = "gate_sleep"
    /\ tx' = [tx EXCEPT !.pc = "read"]
    /\ udp_out' = <<>>
    /\ stats' = <<>>
    /\ UNCHANGED <<now, pending_packets, active_peer, tx_seq, rx, rtx, net,
                   tun_written, inserted_at, handed, ack_seen>>

(* line 175: sleep(1 ms) is over, continue *)
TxGateWake ==
    /\ tx.pc = "gate_sleep"
    /\ tx' = [tx EXCEPT !.pc = "gate"]
    /\ udp_out' = <<>>
    /\ stats' = <<>>
    /\ UNCHANGED <<now, pending_packets, active_peer, tx_seq, rx, rtx, net,
                   tun_written, inserted_at, handed, ack_seen>>

TxRead_NoPeerCheck(res, max_seq) ==
    /\ tx.pc = "read"
    /\ res.ok /\ Len(res.data) > 0 => tx_seq <= max_seq
    /\ IF res.ok /\ Len(res.data) > 0
       THEN /\ tx' = [tx EXCEPT !.pc = "jitter", !.packet = res.data,
                                !.target = active_peer]
            /\ stats' = <<>>
       ELSE IF res.ok
       THEN /\ tx' = [TxIdle EXCEPT !.pc = "done", !.packet = tx.packet]
            /\ stats' = <<>>
       ELSE /\ tx' = [TxIdle EXCEPT !.pc = "read_err_sleep",
                                    !.packet = tx.packet]
            /\ stats' = <<Log("TUN::ReadErr", "")>>
    /\ udp_out' = <<>>
    /\ UNCHANGED <<now, pending_packets, active_peer, tx_seq, rx, rtx, net,
                   tun_written, inserted_at, handed, ack_seen>>

TxRead_ContinueOnEof(res, max_seq) ==
    /\ tx.pc = "read"
    /\ res.ok /\ Len(res.data) > 0 => tx_seq <= max_seq
    /\ IF res.ok /\ Len(res.data) > 0
       THEN LET target == active_peer
            IN  /\ tx' = IF target # None
                         THEN [tx EXCEPT !.pc = "jitter", !.packet = res.data,
                                         !.target = target]
                         ELSE [TxIdle EXCEPT !.packet = res.data]
                /\ stats' = <<>>
       ELSE IF res.ok
       THEN /\ tx' = [TxIdle EXCEPT !.packet = tx.packet]
            /\ stats' = <<>>
       ELSE /\ tx' = [TxIdle EXCEPT !.pc = "read_err_sleep",
                                    !.packet = tx.packet]
            /\ stats' = <<Log("TUN::ReadErr", "")>>
    /\ udp_out' = <<>>
    /\ UNCHANGED <<now, pending_packets, active_peer, tx_seq, rx, rtx, net,
                   tun_written, inserted_at, handed, ack_seen>>

(* lines 179-186 and 214-220: the read returns; the peer cell is read *)
TxRead(res, max_seq) ==
    /\ tx.pc = "read"
    /\ res.ok /\ Len(res.data) > 0 => tx_seq <= max_seq
    /\ IF res.ok /\ Len(res.data) > 0
       THEN LET target == active_peer
            IN  /\ tx' = IF target # None
                         THEN [tx EXCEPT !.pc = "jitter", !.packet = res.data,
                                         !.target = target]
                         ELSE [TxIdle EXCEPT !.packet = res.data]
                /\ stats' = <<>>
       ELSE IF res.ok
       THEN /\ tx' = [TxIdle EXCEPT !.pc = "done", !.packet = tx.packet]
            /\ stats' = <<>>
       ELSE /\ tx' = [TxIdle EXCEPT !.pc = "read_err_sleep",
                                    !.packet = tx.packet]
            /\ stats' = <<Log("TUN::ReadErr", "")>>
    /\ udp_out' = <<>>
    /\ UNCHANGED <<now, pending_packets, active_peer, tx_seq, rx, rtx, net,
                   tun_written, inserted_at, handed, ack_seen>>

(* lines 218-219: sleep(10 ms) is over, break *)
TxReadErrWake ==
    /\ tx.pc = "read_err_sleep"
    /\ tx' = [tx EXCEPT !.pc = "done"]
    /\ udp_out' = <<>>
    /\ stats' = <<>>
    /\ UNCHANGED <<now, pending_packets, active_peer, tx_seq, rx, rtx, net,
                   tun_written, inserted_at, handed, ack_seen>>

TxInsert_NoInsert(nonce, seal_ok) ==
    /\ tx.pc = "jitter"
    /\ seal_ok
    /\ tx_seq' = tx_seq + 1
    /\ tx' = [tx EXCEPT !.pc = "send", !.seq = tx_seq,
                        !.encoded = serialize(new_data(tx_seq,
                            encrypt(nonce, adaptive_compress(tx.packet))))]
    /\ udp_out' = <<>>
    /\ stats' = <<>>
    /\ UNCHANGED <<now, pending_packets, inserted_at, active_peer, rx, rtx,
                   net, tun_written, handed, ack_seen>>

TxInsert_NoFetchAdd(nonce, seal_ok) ==
    /\ tx.pc = "jitter"
    /\ seal_ok
    /\ LET seq == tx_seq
           encoded == serialize(new_data(seq,
                          encrypt(nonce, adaptive_compress(tx.packet))))
       IN  /\ pending_packets' =
                  MapInsert(pending_packets, seq,
                            [sent_time |-> now, data |-> encoded])
           /\ inserted_at' = MapInsert(inserted_at, seq, now)
           /\ tx' = [tx EXCEPT !.pc = "send", !.seq = seq,
                               !.encoded = encoded]
    /\ udp_out' = <<>>
    /\ stats' = <<>>
    /\ UNCHANGED <<now, tx_seq, active_peer, rx, rtx, net, tun_written,
                   handed, ack_seen>>

(* lines 186-202: the jitter sleep is over; compress, seal (unwrap: a seal *)
(* error panics the task), draw seq, encode, insert into the ledger.       *)
TxInsert(nonce, seal_ok) ==
    /\ tx.pc = "jitter"
    /\ IF seal_ok
       THEN LET processed == adaptive_compress(tx.packet)
                encrypted == encrypt(nonce, processed)
                seq == tx_seq
                encoded == serialize(new_data(seq, encrypted))
            IN  /\ tx_seq' = tx_seq + 1
                /\ pending_packets' =
                       MapInsert(pending_packets, seq,
                                 [sent_time |-> now, data |-> encoded])
                /\ inserted_at' = MapInsert(inserted_at, seq, now)
                /\ tx' = [tx EXCEPT !.pc = "send", !.seq = seq,
                                    !.encoded = encoded]
       ELSE /\ tx' = [TxIdle EXCEPT !.pc = "panicked"]
            /\ UNCHANGED <<tx_seq, pending_packets, inserted_at>>
    /\ udp_out' = <<>>
    /\ stats' = <<>>
    /\ UNCHANGED <<now, active_peer, rx, rtx, net, tun_written, handed,
                   ack_seen>>

TxSend_DropOnError(res) ==
    /\ tx.pc = "send"
    /\ udp_out' = <<[data |-> tx.encoded, dst |-> tx.target]>>
    /\ handed' = handed \cup {tx.seq}
    /\ net' = net \cup Delivered(res, tx.encoded, tx.target)
    /\ stats' = IF res = "err"
                THEN <<Log("UDP::SendErr", "")>>
                ELSE <<Throughput(Len(tx.packet), 0)>>
    /\ pending_packets' = IF res = "err"
                          THEN MapRemove(pending_packets, tx.seq)
                          ELSE pending_packets
    /\ tx' = [TxIdle EXCEPT !.packet = tx.packet]
    /\ UNCHANGED <<now, active_peer, tx_seq, rx, rtx, tun_written,
                   inserted_at, ack_seen>>

TxSend_BreakOnError(res) ==
    /\ tx.pc = "send"
    /\ udp_out' = <<[data |-> tx.encoded, dst |-> tx.target]>>
    /\ handed' = handed \cup {tx.seq}
    /\ net' = net \cup Delivered(res, tx.encoded, tx.target)
    /\ stats' = IF res = "err"
                THEN <<Log("UDP::SendErr", "")>>
                ELSE <<Throughput(Len(tx.packet), 0)>>
    /\ tx' = IF res = "err"
             THEN [TxIdle EXCEPT !.pc = "done", !.packet = tx.packet]
             ELSE [TxIdle EXCEPT !.packet = tx.packet]
    /\ UNCHANGED <<now, pending_packets, active_peer, tx_seq, rx, rtx,
                   tun_written, inserted_at, ack_seen>>

TxSend_ToCurrentPeer(res) ==
    /\ tx.pc = "send"
    /\ udp_out' = <<[data |-> tx.encoded, dst |-> active_peer]>>
    /\ handed' = handed \cup {tx.seq}
    /\ net' = net \cup Delivered(res, tx.encoded, active_peer)
    /\ stats' = IF res = "err"
                THEN <<Log("UDP::SendErr", "")>>
                ELSE <<Throughput(Len(tx.packet), 0)>>
    /\ tx' = [TxIdle EXCEPT !.packet = tx.packet]
    /\ UNCHANGED <<now, pending_packets, active_peer, tx_seq, rx, rtx,
                   tun_written, inserted_at, ack_seen>>

TxSend_ForgetPeerOnError(res) ==
    /\ tx.pc = "send"
    /\ udp_out' = <<[data |-> tx.encoded, dst |-> tx.target]>>
    /\ handed' = handed \cup {tx.seq}
    /\ net' = net \cup Delivered(res, tx.encoded, tx.target)
    /\ stats' = IF res = "err"
                THEN <<Log("UDP::SendErr", "")>>
                ELSE <<Throughput(Len(tx.packet), 0)>>
    /\ active_peer' = IF res = "err" THEN None ELSE active_peer
    /\ tx' = [TxIdle EXCEPT !.packet = tx.packet]
    /\ UNCHANGED <<now, pending_packets, tx_seq, rx, rtx, tun_written,
                   inserted_at, ack_seen>>

(* lines 204-211: send_to returns *)
TxSend(res) ==
    /\ tx.pc = "send"
    /\ udp_out' = <<[data |-> tx.encoded, dst |-> tx.target]>>
    /\ handed' = handed \cup {tx.seq}
    /\ net' = net \cup Delivered(res, tx.encoded, tx.target)
    /\ stats' = IF res = "err"
                THEN <<Log("UDP::SendErr", "")>>
                ELSE <<Throughput(Len(tx.packet), 0)>>
    /\ tx' = [TxIdle EXCEPT !.packet = tx.packet]
    /\ UNCHANGED <<now, pending_packets, active_peer, tx_seq, rx, rtx,
                   tun_written, inserted_at, ack_seen>>

-----------------------------------------------------------------------------
(* RX loop, main.rs lines 234-289 *)

(* lines 237-247: recv_from returns a datagram; the peer cell roams *)
RxRecv(dg) ==
    /\ rx.pc = "recv"
    /\ LET src_addr == dg.src
           roam == active_peer = None \/ active_peer # src_addr
       IN  /\ active_peer' = IF roam THEN src_addr ELSE active_peer
           /\ stats' = IF roam
                       THEN <<Log("NET: Peer roamed to", src_addr)>>
                       ELSE <<>>
           /\ rx' = [rx EXCEPT !.pc = "decode", !.buf = dg.data,
                               !.src_addr = src_addr]
    /\ net' = net \ {dg}
    /\ udp_out' = <<>>
    /\ UNCHANGED <<now, pending_packets, tx_seq, tx, rtx, tun_written,
                   inserted_at, handed, ack_seen>>

(* lines 283-286: recv_from returns an error *)
RxRecvErr ==
    /\ rx.pc = "recv"
    /\ rx' = [rx EXCEPT !.pc = "recv_err_sleep"]
    /\ stats' = <<Log("UDP::RecvErr", "")>>
    /\ udp_out' = <<>>
    /\ UNCHANGED <<now, pending_packets, active_peer, tx_seq, tx, rtx, net,
                   tun_written, inserted_at, handed, ack_seen>>

(* line 285: sleep(10 ms) is over *)
RxRecvErrWake ==
    /\ rx.pc = "recv_err_sleep"
    /\ rx' = RxIdle
    /\ udp_out' = <<>>
    /\ stats' = <<>>
    /\ UNCHANGED <<now, pending_packets, active_peer, tx_seq, tx, rtx, net,
                   tun_written, inserted_at, handed, ack_seen>>

RxDecode_ReplyOnError ==
    /\ rx.pc = "decode"
    /\ LET frame == deserialize(rx.buf)
       IN  /\ rx' = IF frame.ok /\ frame.val.header.frame_type = Transport
                    THEN [rx EXCEPT !.pc = "ack_send"] ELSE RxIdle
           /\ pending_packets' =
                  IF frame.ok /\ frame.val.header.frame_type = Ack
                  THEN MapRemove(pending_packets, frame.val.header.ack_num)
                  ELSE pending_packets
           /\ ack_seen' =
                  IF frame.ok /\ frame.val.header.frame_type = Ack
                  THEN ack_seen \cup
                       {<<frame.val.header.ack_num,
                          frame.val.header.ack_num \in DOMAIN inserted_at>>}
                  ELSE ack_seen
           /\ udp_out' = IF frame.ok THEN <<>>
                         ELSE <<[data |-> serialize(new_ack(0, 0)),
                                 dst |-> rx.src_addr]>>
    /\ stats' = <<>>
    /\ UNCHANGED <<now, active_peer, tx_seq, tx, rtx, net, tun_written,
                   inserted_at, handed>>

RxDecode_AckIgnored ==
    /\ rx.pc = "decode"
    /\ LET frame == deserialize(rx.buf)
       IN  rx' = IF frame.ok /\ frame.val.header.frame_type = Transport
                 THEN [rx EXCEPT !.pc = "ack_send"] ELSE RxIdle
    /\ udp_out' = <<>>
    /\ stats' = <<>>
    /\ UNCHANGED <<now, pending_packets, ack_seen, active_peer, tx_seq, tx,
                   rtx, net, tun_written, inserted_at, handed>>

RxDecode_AckCumulative ==
    /\ rx.pc = "decode"
    /\ LET frame == deserialize(rx.buf)
       IN  IF frame.ok /\ frame.val.header.frame_type = Ack
           THEN /\ pending_packets' =
                       [k \in {j \in Keys : j > frame.val.header.ack_num}
                           |-> pending_packets[k]]
                /\ ack_seen' = ack_seen \cup
                       {<<frame.val.header.ack_num,
                          frame.val.header.ack_num \in DOMAIN inserted_at>>}
                /\ rx' = RxIdle
           ELSE /\ rx' = IF frame.ok /\ frame.val.header.frame_type = Transport
                         THEN [rx EXCEPT !.pc = "ack_send"] ELSE RxIdle
                /\ UNCHANGED <<pending_packets, ack_seen>>
    /\ udp_out' = <<>>
    /\ stats' = <<>>
    /\ UNCHANGED <<now, active_peer, tx_seq, tx, rtx, net, tun_written,
                   inserted_at, handed>>

(* lines 250-252 and 272-281: decode and dispatch; an Ack is processed *)
RxDecode ==
    /\ rx.pc = "decode"
    /\ LET frame == deserialize(rx.buf)
       IN  IF ~frame.ok
           THEN /\ rx' = RxIdle
                /\ UNCHANGED <<pending_packets, ack_seen>>
           ELSE IF frame.val.header.frame_type = Transport
           THEN /\ rx' = [rx EXCEPT !.pc = "ack_send"]
                /\ UNCHANGED <<pending_packets, ack_seen>>
           ELSE IF frame.val.header.frame_type = Ack
           THEN /\ pending_packets' =
                       MapRemove(pending_packets, frame.val.header.ack_num)
                /\ ack_seen' = ack_seen \cup
                       {<<frame.val.header.ack_num,
                          frame.val.header.ack_num \in DOMAIN inserted_at>>}
                /\ rx' = RxIdle
           ELSE /\ rx' = RxIdle
                /\ UNCHANGED <<pending_packets, ack_seen>>
    /\ udp_out' = <<>>
    /\ stats' = <<>>
    /\ UNCHANGED <<now, active_peer, tx_seq, tx, rtx, net, tun_written,
                   inserted_at, handed>>

RxAckSend_DropDuplicate ==
    /\ rx.pc = "ack_send"
    /\ LET frame == deserialize(rx.buf).val
           ack_frame == new_ack(0, frame.header.seq)
           ack_bytes == serialize(ack_frame)
           decrypted == decrypt(frame.payload)
           decompressed == IF decrypted.ok
                           THEN adaptive_decompress(decrypted.val)
                           ELSE Err
       IN  /\ udp_out' = <<[data |-> ack_bytes, dst |-> rx.src_addr]>>
           /\ rx' = IF /\ decompressed.ok
                       /\ \A i \in DOMAIN tun_written :
                              tun_written[i] # decompressed.val
                    THEN [rx EXCEPT !.pc = "tun_write",
                                    !.plain = decompressed.val]
                    ELSE RxIdle
    /\ stats' = <<>>
    /\ UNCHANGED <<now, pending_packets, active_peer, tx_seq, tx, rtx, net,
                   tun_written, inserted_at, handed, ack_seen>>

RxAckSend_AckAfterOpen ==
    /\ rx.pc = "ack_send"
    /\ LET frame == deserialize(rx.buf).val
           ack_bytes == serialize(new_ack(0, frame.header.seq))
           decrypted == decrypt(frame.payload)
           decompressed == IF decrypted.ok
                           THEN adaptive_decompress(decrypted.val)
                           ELSE Err
       IN  /\ udp_out' = IF decrypted.ok
                         THEN <<[data |-> ack_bytes, dst |-> rx.src_addr]>>
                         ELSE <<>>
           /\ rx' = IF decompressed.ok
                    THEN [rx EXCEPT !.pc = "tun_write",
                                    !.plain = decompressed.val]
                    ELSE RxIdle
    /\ stats' = <<>>
    /\ UNCHANGED <<now, pending_packets, active_peer, tx_seq, tx, rtx, net,
                   tun_written, inserted_at, handed, ack_seen>>

(* lines 253-261 and 270: the Ack goes out (its result is ignored), then   *)
(* the payload is opened and decompressed                                  *)
RxAckSend ==
    /\ rx.pc = "ack_send"
    /\ LET frame == deserialize(rx.buf).val
           ack_frame == new_ack(0, frame.header.seq)
           ack_bytes == serialize(ack_frame)
           decrypted == decrypt(frame.payload)
           decompressed == IF decrypted.ok
                           THEN adaptive_decompress(decrypted.val)
                           ELSE Err
       IN  /\ udp_out' = <<[data |-> ack_bytes, dst |-> rx.src_addr]>>
           /\ rx' = IF decompressed.ok
                    THEN [rx EXCEPT !.pc = "tun_write",
                                    !.plain = decompressed.val]
                    ELSE RxIdle
    /\ stats' = <<>>
    /\ UNCHANGED <<now, pending_packets, active_peer, tx_seq, tx, rtx, net,
                   tun_written, inserted_at, handed, ack_seen>>

(* lines 262-267: write_all returns *)
RxTunWrite(ok) ==
    /\ rx.pc = "tun_write"
    /\ Len(tun_written) < MaxTun
    /\ IF ok
       THEN /\ tun_written' = Append(tun_written, rx.plain)
            /\ stats' = <<Throughput(0, Len(rx.buf))>>
       ELSE /\ stats' = <<>>
            /\ UNCHANGED tun_written
    /\ rx' = RxIdle
    /\ udp_out' = <<>>
    /\ UNCHANGED <<now, pending_packets, active_peer, tx_seq, tx, rtx, net,
                   inserted_at, handed, ack_seen>>

-----------------------------------------------------------------------------
(* Retransmission task, main.rs lines 119-154 *)

Expired_AtRto(t) == {k \in Keys : t - pending_packets[k].sent_time >= RTO}

Expired_FirstTimeOnly(t) ==
    {k \in Keys : /\ t - pending_packets[k].sent_time > RTO
                  /\ pending_packets[k].sent_time = inserted_at[k]}

(* line 130: the entries a sweep at time t collects *)
Expired(t) == {k \in Keys : t - pending_packets[k].sent_time > RTO}

Range(s) == {s[i] : i \in DOMAIN s}

(* The orders in which a HashMap can hand out the keys of S *)
Orders(S) ==
    {s \in [1..Cardinality(S) -> S] : Range(s) = S}

(* One of them: the keys of S (seqs drawn so far) in ascending order *)
Ascending(S) ==
    SelectSeq([i \in 1..(tx_seq - 1) |-> i], LAMBDA x : x \in S)

(* lines 121-138: the 10 ms sleep is over; sweep under the lock, then      *)
(* read the peer cell                                                      *)
RtxSweep(order) ==
    /\ rtx.pc = "sleep"
    /\ Range(order) = Expired(now) /\ Len(order) = Cardinality(Expired(now))
    /\ LET retransmits ==
               [i \in 1..Len(order) |->
                    [seq |-> order[i], data |-> pending_packets[order[i]].data]]
           target == active_peer
       IN  rtx' = IF retransmits # <<>> /\ target # None
                  THEN [pc |-> "send", retransmits |-> retransmits,
                        remote_addr |-> target]
                  ELSE RtxIdle
    /\ udp_out' = <<>>
    /\ stats' = <<>>
    /\ UNCHANGED <<now, pending_packets, active_peer, tx_seq, tx, rx, net,
                   tun_written, inserted_at, handed, ack_seen>>

RtxNext(rest) ==
    IF rest = <<>> THEN RtxIdle
    ELSE [rtx EXCEPT !.pc = "send", !.retransmits = rest]

RtxSend_RefreshOnError(res) ==
    /\ rtx.pc = "send"
    /\ LET head == Head(rtx.retransmits)
       IN  /\ udp_out' = <<[data |-> head.data, dst |-> rtx.remote_addr]>>
           /\ net' = net \cup Delivered(res, head.data, rtx.remote_addr)
           /\ stats' = IF res = "err" THEN <<Log("RTX::Err", "")>> ELSE <<>>
           /\ rtx' = [rtx EXCEPT !.pc = "refresh"]
    /\ UNCHANGED <<now, pending_packets, active_peer, tx_seq, tx, rx,
                   tun_written, inserted_at, handed, ack_seen>>

(* line 141-142: send_to returns for the first entry still to send *)
RtxSend(res) ==
    /\ rtx.pc = "send"
    /\ LET head == Head(rtx.retransmits)
       IN  /\ udp_out' = <<[data |-> head.data, dst |-> rtx.remote_addr]>>
           /\ net' = net \cup Delivered(res, head.data, rtx.remote_addr)
           /\ IF res = "err"
              THEN /\ stats' = <<Log("RTX::Err", "")>>
                   /\ rtx' = RtxNext(Tail(rtx.retransmits))
              ELSE /\ stats' = <<>>
                   /\ rtx' = [rtx EXCEPT !.pc = "refresh"]
    /\ UNCHANGED <<now, pending_packets, active_peer, tx_seq, tx, rx,
                   tun_written, inserted_at, handed, ack_seen>>

RtxRefresh_Insert ==
    /\ rtx.pc = "refresh"
    /\ LET head == Head(rtx.retransmits)
       IN  pending_packets' =
               MapInsert(pending_packets, head.seq,
                         [sent_time |-> now, data |-> head.data])
    /\ rtx' = RtxNext(Tail(rtx.retransmits))
    /\ udp_out' = <<>>
    /\ stats' = <<>>
    /\ UNCHANGED <<now, active_peer, tx_seq, tx, rx, net, tun_written,
                   inserted_at, handed, ack_seen>>

RtxRefresh_Evict ==
    /\ rtx.pc = "refresh"
    /\ pending_packets' =
           MapRemove(pending_packets, Head(rtx.retransmits).seq)
    /\ rtx' = RtxNext(Tail(rtx.retransmits))
    /\ udp_out' = <<>>
    /\ stats' = <<>>
    /\ UNCHANGED <<now, active_peer, tx_seq, tx, rx, net, tun_written,
                   inserted_at, handed, ack_seen>>

(* lines 144-148: the timestamp of the entry is refreshed if it is still   *)
(* in the ledger                                                           *)
RtxRefresh ==
    /\ rtx.pc = "refresh"
    /\ LET seq == Head(rtx.retransmits).seq
       IN  pending_packets' =
               IF seq \in Keys
               THEN [pending_packets EXCEPT ![seq].sent_time = now]
               ELSE pending_packets
    /\ rtx' = RtxNext(Tail(rtx.retransmits))
    /\ udp_out' = <<>>
    /\ stats' = <<>>
    /\ UNCHANGED <<now, active_peer, tx_seq, tx, rx, net, tun_written,
                   inserted_at, handed, ack_seen>>

-----------------------------------------------------------------------------
(* The clock *)

TickSteps == {RTO + 1}

Tick(d, max_now) ==
    /\ now + d <= max_now
    /\ now' = now + d
    /\ udp_out' = <<>>
    /\ stats' = <<>>
    /\ UNCHANGED <<pending_packets, active_peer, tx_seq, tx, rx, rtx, net,
                   tun_written, inserted_at, handed, ack_seen>>

-----------------------------------------------------------------------------
(* Spec: the instance on a lossy link to its peer.  The inbound datagrams *)
(* are the Acks of the peer and stray Acks.  (The ledger stays far below   *)
(* WINDOW_SIZE here, so the gate never sleeps: see SpecWindow.)            *)

Next ==
    \/ TxGate
    \/ \E res \in TapReads : TxRead(res, MaxSeq)
    \/ TxReadErrWake
    \/ \E nonce \in Nonces, seal_ok \in BOOLEAN : TxInsert(nonce, seal_ok)
    \/ \E res \in SendResults : TxSend(res)
    \/ \E dg \in net \cup StrayAcks : RxRecv(dg)
    \/ RxRecvErr
    \/ RxRecvErrWake
    \/ RxDecode
    \/ \E order \in Orders(Expired(now)) : RtxSweep(order)
    \/ \E res \in SendResults : RtxSend(res)
    \/ RtxRefresh
    \/ \E d \in TickSteps : Tick(d, MaxNow)

Spec == Init /\ [][Next]_vars

-----------------------------------------------------------------------------
(* SpecRx: the instance receiving the frames of its peer and datagrams of  *)
(* any origin.                                                             *)

NextRx ==
    \/ TxGate
    \/ \E res \in TapReads : TxRead(res, MaxSeqRx)
    \/ TxReadErrWake
    \/ \E nonce \in Nonces, seal_ok \in BOOLEAN : TxInsert(nonce, seal_ok)
    \/ \E res \in SendResults : TxSend(res)
    \/ \E dg \in net \cup FromPeer \cup StrayAcks \cup Foreign : RxRecv(dg)
    \/ RxRecvErr
    \/ RxRecvErrWake
    \/ RxDecode
    \/ RxAckSend
    \/ \E ok \in BOOLEAN : RxTunWrite(ok)
    \/ \E order \in Orders(Expired(now)) : RtxSweep(order)
    \/ \E res \in SendResults : RtxSend(res)
    \/ RtxRefresh
    \/ \E d \in TickSteps : Tick(d, MaxNow)

SpecRx == Init /\ [][NextRx]_vars

-----------------------------------------------------------------------------
(* SpecWindow: the instance sending into a link whose far end is almost    *)
(* silent: every frame is lost but for the Acks of AckNumsW, so the ledger *)
(* fills up to WINDOW_SIZE.                                                *)

AckNumsW == {1, WINDOW_SIZE}

AcksW == {Datagram(serialize(new_ack(0, k)), "B") : k \in AckNumsW}

TapReadsW == {[ok |-> TRUE, data |-> p] : p \in Packets}

(* The window fills before the clock moves on *)
TickFull(d) == Cardinality(Keys) = WINDOW_SIZE /\ Tick(d, MaxNow)

NextWindow ==
    \/ TxGate
    \/ TxGateWake
    \/ \E res \in TapReadsW : TxRead(res, MaxSeqW)
    \/ \E nonce \in Nonces : TxInsert(nonce, TRUE)
    \/ TxSend("lost")
    \/ \E dg \in AcksW : RxRecv(dg)
    \/ RxDecode
    \/ RtxSweep(Ascending(Expired(now)))
    \/ RtxSend("lost")
    \/ RtxRefresh
    \/ \E d \in TickSteps : TickFull(d)

SpecWindow == Init /\ [][NextWindow]_vars

(* The runtime runs a task that is ready: the gate's check and the end of  *)
(* its 1 ms sleep are never postponed forever.                             *)
SpecWindowFair ==
    SpecWindow /\ WF_vars(TxGate) /\ WF_vars(TxGateWake)

-----------------------------------------------------------------------------
(* SpecSweep: the instance and its peer with the clock moving in steps     *)
(* around RTO, so that sweeps meet entries aged RTO - 1, RTO and RTO + 1.  *)

SweepSteps == {RTO - 1, RTO, RTO + 1}

NextSweep ==
    \/ TxGate
    \/ \E res \in TapReadsW : TxRead(res, MaxSeqT)
    \/ \E nonce \in Nonces : TxInsert(nonce, TRUE)
    \/ \E res \in SendResults : TxSend(res)
    \/ \E dg \in net : RxRecv(dg)
    \/ RxDecode
    \/ \E order \in Orders(Expired(now)) : RtxSweep(order)
    \/ \E res \in SendResults : RtxSend(res)
    \/ RtxRefresh
    \/ \E d \in SweepSteps : Tick(d, MaxNowT)

SpecSweep == Init /\ [][NextSweep]_vars

(* The runtime runs a task that is ready and a send_to returns: the sweep, *)
(* the sends of a sweep and the refreshes are never postponed forever.     *)
SpecSweepFair ==
    /\ SpecSweep
    /\ WF_vars(\E order \in Orders(Expired(now)) : RtxSweep(order))
    /\ WF_vars(\E res \in SendResults : RtxSend(res))
    /\ WF_vars(RtxRefresh)

-----------------------------------------------------------------------------
(* SpecLossless: the instance and its peer on a link that loses nothing    *)
(* and whose round trip, from the insert of a frame to the processing of   *)
(* its Ack, takes less than RTO: every send succeeds and is answered, and  *)
(* the clock does not advance past the time by which an Ack in flight is   *)
(* due, nor while a handler is between receipt and completion.  (No entry  *)
(* gets older than RTO here, so a sweep never has anything to send.)       *)

MaxRtt == RTO - 1

OnTime(d) ==
    /\ tx.pc # "send"
    /\ rx.pc = "recv"
    /\ \A dg \in net : \A k \in DOMAIN inserted_at :
           LET frame == deserialize(dg.data)
           IN  (frame.ok /\ frame.val.header.frame_type = Ack
                         /\ frame.val.header.ack_num = k)
                   => now + d <= inserted_at[k] + MaxRtt

TickOnTime(d) == OnTime(d) /\ Tick(d, MaxNowT)

NextLossless ==
    \/ TxGate
    \/ \E res \in TapReadsW : TxRead(res, MaxSeqT)
    \/ \E nonce \in Nonces : TxInsert(nonce, TRUE)
    \/ TxSend("replied")
    \/ \E dg \in net \cup FromPeer : RxRecv(dg)
    \/ RxDecode
    \/ RxAckSend
    \/ \E ok \in BOOLEAN : RxTunWrite(ok)
    \/ \E order \in Orders(Expired(now)) : RtxSweep(order)
    \/ \E d \in SweepSteps : TickOnTime(d)

SpecLossless == Init /\ [][NextLossless]_vars

-----------------------------------------------------------------------------
(* SpecDead: the instance sending to a peer that is dead: no datagram ever *)
(* arrives and every frame is lost or fails to be sent.  The clock moves   *)
(* on once the ledger is full and between the sweeps (the sends of one     *)
(* sweep take less than a step of the clock), over three rounds of         *)
(* retransmission; the retransmission of frame 1 may fail, the others are  *)
(* sent and lost.                                                          *)

DeadSendResults(seq) == IF seq = 1 THEN {"err", "lost"} ELSE {"lost"}

TickDead(d) ==
    /\ Cardinality(Keys) = WINDOW_SIZE
    /\ rtx.pc = "sleep"
    /\ Tick(d, MaxNowD)

RtxSweepDead == \E order \in {Ascending(Expired(now))} : RtxSweep(order)

RtxSendDead ==
    /\ rtx.pc = "send"
    /\ \E res \in DeadSendResults(Head(rtx.retransmits).seq) : RtxSend(res)

NextDead ==
    \/ TxGate
    \/ TxGateWake
    \/ \E res \in TapReadsW : TxRead(res, MaxSeqW)
    \/ \E nonce \in Nonces : TxInsert(nonce, TRUE)
    \/ \E res \in {"err", "lost"} : TxSend(res)
    \/ RtxSweepDead
    \/ RtxSendDead
    \/ RtxRefresh
    \/ \E d \in TickSteps : TickDead(d)

SpecDead == Init /\ [][NextDead]_vars

SpecDeadFair ==
    /\ SpecDead
    /\ WF_vars(RtxSweepDead)
    /\ WF_vars(RtxSendDead)
    /\ WF_vars(RtxRefresh)

-----------------------------------------------------------------------------
(* SpecLocks: the three tasks at the grain of their lock operations.  The  *)
(* tasks run in parallel on the worker threads of the runtime, so a        *)
(* parking_lot lock() is a step of its own: it returns once no other task  *)
(* holds the mutex.  Each task record carries the guards it holds (held);  *)
(* a guard is released where its scope or its statement ends.              *)

MaxSeqL == 1         \* SpecLocks: seqs drawn by the TX loop
MaxNowL == 201       \* SpecLocks: the clock stops beyond this

LTxIdle == [pc |-> "gate", held |-> {}, packet |-> <<>>, target |-> None,
            seq |-> 0, encoded |-> <<>>]
LRxIdle == [pc |-> "recv", held |-> {}, buf |-> <<>>, src_addr |-> None,
            plain |-> <<>>]
LRtxIdle == [pc |-> "sleep", held |-> {}, now |-> 0, retransmits |-> <<>>,
             remote_addr |-> None]

InitLocks ==
    /\ now = 0
    /\ pending_packets = <<>>
    /\ active_peer \in {None, "B"}
    /\ tx_seq = 1
    /\ tx = LTxIdle
    /\ rx = LRxIdle
    /\ rtx = LRtxIdle
    /\ net = {}
    /\ udp_out = <<>>
    /\ stats = <<>>
    /\ tun_written = <<>>
    /\ inserted_at = <<>>
    /\ handed = {}
    /\ ack_seen = {}

(* Mutex::lock returns only while no guard of the mutex is alive *)
Free(l) == l \notin (tx.held \cup rx.held \cup rtx.held)

(* TX loop: pending_tx.lock() at lines 170 and 200, peer_tx.lock() at 181 *)
LTxLock(l, from, to) ==
    /\ tx.pc = from
    /\ Free(l)
    /\ tx' = [tx EXCEPT !.pc = to, !.held = @ \cup {l}]
    /\ udp_out' = <<>>
    /\ stats' = <<>>
    /\ UNCHANGED <<now, pending_packets, active_peer, tx_seq, rx, rtx, net,
                   tun_written, inserted_at, handed, ack_seen>>

(* lines 171-177: len() under the guard, the guard dropped at line 172 *)
LTxGateUnlock ==
    /\ tx.pc = "gate_locked"
    /\ LET is_full == Cardinality(Keys) >= WINDOW_SIZE
       IN  tx' = [tx EXCEPT !.pc = IF is_full THEN "gate_sleep" ELSE "read",
                            !.held = @ \ {"ledger"}]
    /\ udp_out' = <<>>
    /\ stats' = <<>>
    /\ UNCHANGED <<now, pending_packets, active_peer, tx_seq, rx, rtx, net,
                   tun_written, inserted_at, handed, ack_seen>>

(* lines 179-180 and 214-220: the read of the TUN device returns *)
LTxRead(res, max_seq) ==
    /\ tx.pc = "read"
    /\ res.ok /\ Len(res.data) > 0 => tx_seq <= max_seq
    /\ IF res.ok /\ Len(res.data) > 0
       THEN /\ tx' = [tx EXCEPT !.pc = "peer", !.packet = res.data]
            /\ stats' = <<>>
       ELSE IF res.ok
       THEN /\ tx' = [tx EXCEPT !.pc = "done"]
            /\ stats' = <<>>
       ELSE /\ tx' = [tx EXCEPT !.pc = "read_err_sleep"]
            /\ stats' = <<Log("TUN::ReadErr", "")>>
    /\ udp_out' = <<>>
    /\ UNCHANGED <<now, pending_packets, active_peer, tx_seq, rx, rtx, net,
                   tun_written, inserted_at, handed, ack_seen>>

(* lines 218-219: sleep(10 ms) is over, break *)
LTxReadErrWake ==
    /\ tx.pc = "read_err_sleep"
    /\ tx' = [tx EXCEPT !.pc = "done"]
    /\ udp_out' = <<>>
    /\ stats' = <<>>
    /\ UNCHANGED <<now, pending_packets, active_peer, tx_seq, rx, rtx, net,
                   tun_written, inserted_at, handed, ack_seen>>

(* lines 181-182: the cell is copied, the temporary guard dropped at the   *)
(* end of the statement                                                    *)
LTxPeerUnlock ==
    /\ tx.pc = "peer_locked"
    /\ LET target == active_peer
       IN  tx' = IF target # None
                 THEN [tx EXCEPT !.pc = "jitter", !.target = target,
                                 !.held = @ \ {"peer"}]
                 ELSE [tx EXCEPT !.pc = "gate", !.held = @ \ {"peer"}]
    /\ udp_out' = <<>>
    /\ stats' = <<>>
    /\ UNCHANGED <<now, pending_packets, active_peer, tx_seq, rx, rtx, net,
                   tun_written, inserted_at, handed, ack_seen>>

(* lines 186-196: the jitter sleep is over; compress, seal, draw seq,      *)
(* encode                                                                  *)
LTxSeal(nonce, seal_ok) ==
    /\ tx.pc = "jitter"
    /\ IF seal_ok
       THEN LET processed == adaptive_compress(tx.packet)
                encrypted == encrypt(nonce, processed)
                seq == tx_seq
                encoded == serialize(new_data(seq, encrypted))
            IN  /\ tx_seq' = tx_seq + 1
                /\ tx' = [tx EXCEPT !.pc = "insert", !.seq = seq,
                                    !.encoded = encoded]
       ELSE /\ tx' = [tx EXCEPT !.pc = "panicked"]
            /\ UNCHANGED tx_seq
    /\ udp_out' = <<>>
    /\ stats' = <<>>
    /\ UNCHANGED <<now, pending_packets, active_peer, rx, rtx, net,
                   tun_written, inserted_at, handed, ack_seen>>

(* lines 199-202: insert under the guard, dropped at the end of the scope *)
LTxInsertUnlock ==
    /\ tx.pc = "insert_locked"
    /\ pending_packets' =
           MapInsert(pending_packets, tx.seq,
                     [sent_time |-> now, data |-> tx.encoded])
    /\ inserted_at' = MapInsert(inserted_at, tx.seq, now)
    /\ tx' = [tx EXCEPT !.pc = "send", !.held = @ \ {"ledger"}]
    /\ udp_out' = <<>>
    /\ stats' = <<>>
    /\ UNCHANGED <<now, active_peer, tx_seq, rx, rtx, net, tun_written,
                   handed, ack_seen>>

(* lines 204-211: send_to returns *)
LTxSend(res) ==
    /\ tx.pc = "send"
    /\ udp_out' = <<[data |-> tx.encoded, dst |-> tx.target]>>
    /\ handed' = handed \cup {tx.seq}
    /\ net' = net \cup Delivered(res, tx.encoded, tx.target)
    /\ stats' = IF res = "err"
                THEN <<Log("UDP::SendErr", "")>>
                ELSE <<Throughput(Len(tx.packet), 0)>>
    /\ tx' = [tx EXCEPT !.pc = "gate", !.target = None, !.seq = 0,
                        !.encoded = <<>>]
    /\ UNCHANGED <<now, pending_packets, active_peer, tx_seq, rx, rtx,
                   tun_written, inserted_at, ack_seen>>

(* RX loop: peer_rx.lock() at line 241, pending_rx.lock() at line 274 *)
LRxLock(l, from, to) ==
    /\ rx.pc = from
    /\ Free(l)
    /\ rx' = [rx EXCEPT !.pc = to, !.held = @ \cup {l}]
    /\ udp_out' = <<>>
    /\ stats' = <<>>
    /\ UNCHANGED <<now, pending_packets, active_peer, tx_seq, tx, rtx, net,
                   tun_written, inserted_at, handed, ack_seen>>

(* line 237: recv_from returns a datagram *)
LRxRecv(dg) ==
    /\ rx.pc = "recv"
    /\ rx' = [rx EXCEPT !.pc = "roam", !.buf = dg.data, !.src_addr = dg.src]
    /\ net' = net \ {dg}
    /\ udp_out' = <<>>
    /\ stats' = <<>>
    /\ UNCHANGED <<now, pending_packets, active_peer, tx_seq, tx, rtx,
                   tun_written, inserted_at, handed, ack_seen>>

(* lines 283-286: recv_from returns an error *)
LRxRecvErr ==
    /\ rx.pc = "recv"
    /\ rx' = [rx EXCEPT !.pc = "recv_err_sleep"]
    /\ stats' = <<Log("UDP::RecvErr", "")>>
    /\ udp_out' = <<>>
    /\ UNCHANGED <<now, pending_packets, active_peer, tx_seq, tx, rtx, net,
                   tun_written, inserted_at, handed, ack_seen>>

(* line 285: sleep(10 ms) is over *)
LRxRecvErrWake ==
    /\ rx.pc = "recv_err_sleep"
    /\ rx' = [rx EXCEPT !.pc = "recv"]
    /\ udp_out' = <<>>
    /\ stats' = <<>>
    /\ UNCHANGED <<now, pending_packets, active_peer, tx_seq, tx, rtx, net,
                   tun_written, inserted_at, handed, ack_seen>>

(* lines 242-247: the cell roams under the guard, dropped at line 247 *)
LRxRoamUnlock ==
    /\ rx.pc = "roam_locked"
    /\ LET roam == active_peer = None \/ active_peer # rx.src_addr
       IN  /\ active_peer' = IF roam THEN rx.src_addr ELSE active_peer
           /\ stats' = IF roam
                       THEN <<Log("NET: Peer roamed to", rx.src_addr)>>
                       ELSE <<>>
    /\ rx' = [rx EXCEPT !.pc = "decode", !.held = @ \ {"peer"}]
    /\ udp_out' = <<>>
    /\ UNCHANGED <<now, pending_packets, tx_seq, tx, rtx, net, tun_written,
                   inserted_at, handed, ack_seen>>

(* lines 250-252, 272 and 279-281: decode and dispatch *)
LRxDecode ==
    /\ rx.pc = "decode"
    /\ LET frame == deserialize(rx.buf)
       IN  rx' = IF ~frame.ok
                 THEN LRxIdle
                 ELSE IF frame.val.header.frame_type = Transport
                 THEN [rx EXCEPT !.pc = "ack_send"]
                 ELSE IF frame.val.header.frame_type = Ack
                 THEN [rx EXCEPT !.pc = "ack"]
                 ELSE LRxIdle
    /\ udp_out' = <<>>
    /\ stats' = <<>>
    /\ UNCHANGED <<now, pending_packets, active_peer, tx_seq, tx, rtx, net,
                   tun_written, inserted_at, handed, ack_seen>>

(* lines 254-261: send_to of the Ack returns; open and decompress *)
LRxAckSend ==
    /\ rx.pc = "ack_send"
    /\ LET frame == deserialize(rx.buf).val
           ack_frame == new_ack(0, frame.header.seq)
           ack_bytes == serialize(ack_frame)
           decrypted == decrypt(frame.payload)
           decompressed == IF decrypted.ok
                           THEN adaptive_decompress(decrypted.val)
                           ELSE Err
       IN  /\ udp_out' = <<[data |-> ack_bytes, dst |-> rx.src_addr]>>
           /\ rx' = IF decompressed.ok
                    THEN [rx EXCEPT !.pc = "tun_write",
                                    !.plain = decompressed.val]
                    ELSE LRxIdle
    /\ stats' = <<>>
    /\ UNCHANGED <<now, pending_packets, active_peer, tx_seq, tx, rtx, net,
                   tun_written, inserted_at, handed, ack_seen>>

(* lines 262-267: write_all returns *)
LRxTunWrite(ok) ==
    /\ rx.pc = "tun_write"
    /\ Len(tun_written) < MaxTun
    /\ IF ok
       THEN /\ tun_written' = Append(tun_written, rx.plain)
            /\ stats' = <<Throughput(0, Len(rx.buf))>>
       ELSE /\ stats' = <<>>
            /\ UNCHANGED tun_written
    /\ rx' = LRxIdle
    /\ udp_out' = <<>>
    /\ UNCHANGED <<now, pending_packets, active_peer, tx_seq, tx, rtx, net,
                   inserted_at, handed, ack_seen>>

(* lines 274-278: remove under the guard, dropped at the end of the arm *)
LRxAckUnlock ==
    /\ rx.pc = "ack_locked"
    /\ LET ack_num == deserialize(rx.buf).val.header.ack_num
       IN  /\ pending_packets' = MapRemove(pending_packets, ack_num)
           /\ ack_seen' = ack_seen \cup
                  {<<ack_num, ack_num \in DOMAIN inserted_at>>}
    /\ rx' = [LRxIdle EXCEPT !.held = rx.held \ {"ledger"}]
    /\ udp_out' = <<>>
    /\ stats' = <<>>
    /\ UNCHANGED <<now, active_peer, tx_seq, tx, rtx, net, tun_written,
                   inserted_at, handed>>

(* Retransmission task: rtx_pending.lock() at lines 127 and 145,           *)
(* rtx_peer.lock() at line 137                                             *)
LRtxLock(l, from, to) ==
    /\ rtx.pc = from
    /\ Free(l)
    /\ rtx' = [rtx EXCEPT !.pc = to, !.held = @ \cup {l}]
    /\ udp_out' = <<>>
    /\ stats' = <<>>
    /\ UNCHANGED <<now, pending_packets, active_peer, tx_seq, tx, rx, net,
                   tun_written, inserted_at, handed, ack_seen>>

(* lines 121-124: the 10 ms sleep is over; the clock is read *)
LRtxWake ==
    /\ rtx.pc = "sleep"
    /\ rtx' = [rtx EXCEPT !.pc = "sweep", !.now = now]
    /\ udp_out' = <<>>
    /\ stats' = <<>>
    /\ UNCHANGED <<now, pending_packets, active_peer, tx_seq, tx, rx, net,
                   tun_written, inserted_at, handed, ack_seen>>

LRtxSweepUnlock_KeepLock(order) ==
    /\ rtx.pc = "sweep_locked"
    /\ Range(order) = Expired(rtx.now)
    /\ Len(order) = Cardinality(Expired(rtx.now))
    /\ LET retransmits ==
               [i \in 1..Len(order) |->
                    [seq |-> order[i], data |-> pending_packets[order[i]].data]]
       IN  rtx' = IF retransmits # <<>>
                  THEN [rtx EXCEPT !.pc = "peer", !.retransmits = retransmits]
                  ELSE [rtx EXCEPT !.pc = "sleep", !.held = @ \ {"ledger"}]
    /\ udp_out' = <<>>
    /\ stats' = <<>>
    /\ UNCHANGED <<now, pending_packets, active_peer, tx_seq, tx, rx, net,
                   tun_written, inserted_at, handed, ack_seen>>

(* lines 126-136: the sweep copies the expired entries under the guard,    *)
(* dropped at the end of the scope (line 134)                              *)
LRtxSweepUnlock(order) ==
    /\ rtx.pc = "sweep_locked"
    /\ Range(order) = Expired(rtx.now)
    /\ Len(order) = Cardinality(Expired(rtx.now))
    /\ LET retransmits ==
               [i \in 1..Len(order) |->
                    [seq |-> order[i], data |-> pending_packets[order[i]].data]]
       IN  rtx' = [rtx EXCEPT !.pc = IF retransmits # <<>>
                                     THEN "peer" ELSE "sleep",
                              !.retransmits = retransmits,
                              !.held = @ \ {"ledger"}]
    /\ udp_out' = <<>>
    /\ stats' = <<>>
    /\ UNCHANGED <<now, pending_packets, active_peer, tx_seq, tx, rx, net,
                   tun_written, inserted_at, handed, ack_seen>>

(* lines 137-138: the cell is copied, the temporary guard dropped at the   *)
(* end of the statement                                                    *)
LRtxPeerUnlock ==
    /\ rtx.pc = "peer_locked"
    /\ LET target == active_peer
       IN  rtx' = IF target # None
                  THEN [rtx EXCEPT !.pc = "send", !.remote_addr = target,
                                   !.held = @ \ {"peer"}]
                  ELSE [rtx EXCEPT !.pc = "sleep", !.retransmits = <<>>,
                                   !.held = @ \ {"peer"}]
    /\ udp_out' = <<>>
    /\ stats' = <<>>
    /\ UNCHANGED <<now, pending_packets, active_peer, tx_seq, tx, rx, net,
                   tun_written, inserted_at, handed, ack_seen>>

(* line 139: the next entry of the sweep, or the end of the loop body *)
LRtxNext(rest) ==
    IF rest = <<>>
    THEN [rtx EXCEPT !.pc = "sleep", !.retransmits = <<>>,
                     !.remote_addr = None]
    ELSE [rtx EXCEPT !.pc = "send", !.retransmits = rest]

(* lines 141-143: send_to returns for the first entry still to send *)
LRtxSend(res) ==
    /\ rtx.pc = "send"
    /\ LET head == Head(rtx.retransmits)
       IN  /\ udp_out' = <<[data |-> head.data, dst |-> rtx.remote_addr]>>
           /\ net' = net \cup Delivered(res, head.data, rtx.remote_addr)
           /\ IF res = "err"
              THEN /\ stats' = <<Log("RTX::Err", "")>>
                   /\ rtx' = LRtxNext(Tail(rtx.retransmits))
              ELSE /\ stats' = <<>>
                   /\ rtx' = [rtx EXCEPT !.pc = "refresh"]
    /\ UNCHANGED <<now, pending_packets, active_peer, tx_seq, tx, rx,
                   tun_written, inserted_at, handed, ack_seen>>

(* lines 145-148: the timestamp is refreshed under the guard, dropped at   *)
(* the end of the else block                                               *)
LRtxRefreshUnlock ==
    /\ rtx.pc = "refresh_locked"
    /\ LET seq == Head(rtx.retransmits).seq
       IN  pending_packets' =
               IF seq \in Keys
               THEN [pending_packets EXCEPT ![seq].sent_time = now]
               ELSE pending_packets
    /\ rtx' = [LRtxNext(Tail(rtx.retransmits)) EXCEPT
                   !.held = @ \ {"ledger"}]
    /\ udp_out' = <<>>
    /\ stats' = <<>>
    /\ UNCHANGED <<now, active_peer, tx_seq, tx, rx, net, tun_written,
                   inserted_at, handed, ack_seen>>

NextLocks ==
    \/ LTxLock("ledger", "gate", "gate_locked")
    \/ LTxGateUnlock
    \/ \E res \in TapReads : LTxRead(res, MaxSeqL)
    \/ LTxReadErrWake
    \/ LTxLock("peer", "peer", "peer_locked")
    \/ LTxPeerUnlock
    \/ \E nonce \in Nonces, seal_ok \in BOOLEAN : LTxSeal(nonce, seal_ok)
    \/ LTxLock("ledger", "insert", "insert_locked")
    \/ LTxInsertUnlock
    \/ \E res \in SendResults : LTxSend(res)
    \/ \E dg \in net \cup FromPeer : LRxRecv(dg)
    \/ LRxRecvErr
    \/ LRxRecvErrWake
    \/ LRxLock("peer", "roam", "roam_locked")
    \/ LRxRoamUnlock
    \/ LRxDecode
    \/ LRxAckSend
    \/ \E ok \in BOOLEAN : LRxTunWrite(ok)
    \/ LRxLock("ledger", "ack", "ack_locked")
    \/ LRxAckUnlock
    \/ LRtxWake
    \/ LRtxLock("ledger", "sweep", "sweep_locked")
    \/ \E order \in Orders(Expired(rtx.now)) : LRtxSweepUnlock(order)
    \/ LRtxLock("peer", "peer", "peer_locked")
    \/ LRtxPeerUnlock
    \/ \E res \in SendResults : LRtxSend(res)
    \/ LRtxLock("ledger", "refresh", "refresh_locked")
    \/ LRtxRefreshUnlock
    \/ \E d \in TickSteps : Tick(d, MaxNowL)

SpecLocks == InitLocks /\ [][NextLocks]_vars

-----------------------------------------------------------------------------
(* SpecEnd: the instance whose TUN device goes down or fails: a read of    *)
(* the TX loop may return 0 bytes or an error at any time, while the Acks  *)
(* of the peer and the sweeps go on.                                       *)

MaxSeqE == 1         \* SpecEnd: packets the TX loop turns into frames
MaxNowE == 402       \* SpecEnd: the clock stops beyond this

NextEnd ==
    \/ TxGate
    \/ \E res \in TapReads : TxRead(res, MaxSeqE)
    \/ TxReadErrWake
    \/ \E nonce \in Nonces : TxInsert(nonce, TRUE)
    \/ \E res \in SendResults : TxSend(res)
    \/ \E dg \in net : RxRecv(dg)
    \/ RxDecode
    \/ \E order \in Orders(Expired(now)) : RtxSweep(order)
    \/ \E res \in SendResults : RtxSend(res)
    \/ RtxRefresh
    \/ \E d \in TickSteps : Tick(d, MaxNowE)

SpecEnd == Init /\ [][NextEnd]_vars

(* The runtime runs a task that is ready, a timer fires and a send_to      *)
(* returns: the steps of the retransmission task, the handling of a        *)
(* received datagram and the end of the error sleep of the TX loop are     *)
(* never postponed forever.                                                *)
SpecEndFair ==
    /\ SpecEnd
    /\ WF_vars(\E order \in Orders(Expired(now)) : RtxSweep(order))
    /\ WF_vars(\E res \in SendResults : RtxSend(res))
    /\ WF_vars(RtxRefresh)
    /\ WF_vars(RxDecode)
    /\ WF_vars(TxReadErrWake)

-----------------------------------------------------------------------------
(* Properties *)

Inserted == DOMAIN inserted_at

IsAckFor(bytes, k) ==
    LET frame == deserialize(bytes)
    IN  /\ frame.ok
        /\ frame.val.header.frame_type = Ack
        /\ frame.val.header.ack_num = k

(* The payload of a datagram opens under the session key *)
AeadOpens(bytes) ==
    LET frame == deserialize(bytes)
    IN  /\ frame.ok
        /\ frame.val.header.frame_type = Transport
        /\ decrypt(frame.val.payload).ok

Full == Cardinality(Keys) >= WINDOW_SIZE

(* C1: the ledger never holds more than WINDOW_SIZE entries. *)
C1_LedgerBound == Cardinality(Keys) <= WINDOW_SIZE

C1_Witness ==
    /\ Cardinality(Keys) = WINDOW_SIZE
    /\ tx.pc = "gate_sleep"
    /\ rtx.pc = "refresh"
    /\ rx.pc = "decode"

(* C2: once the peer cell is set, only a datagram whose AEAD verification  *)
(* succeeds overwrites it.  The RX loop roams on every datagram, before    *)
(* it decodes it, so this fails.                                           *)
C2_RoamOnlyAfterAead ==
    [][(active_peer # None /\ active_peer' # active_peer)
          => AeadOpens(rx'.buf)]_vars

(* C3: a Transport frame is handed to the socket only after its seq is in  *)
(* the ledger, so every Ack that answers a frame of this instance          *)
(* acknowledges a seq that has been inserted.                              *)
C3_InsertBeforeSend ==
    /\ handed \subseteq Inserted
    /\ tx.pc = "send" => tx.seq \in Inserted
    /\ \A dg \in net : \E k \in Inserted : IsAckFor(dg.data, k)

C3_Witness ==
    \E dg \in net : \E k \in Keys : k \in handed /\ IsAckFor(dg.data, k)

(* C4: a key leaves the ledger only in the step in which the RX loop       *)
(* processes an Ack frame whose ack_num is that key.                       *)
C4_RemovedOnlyByAck ==
    [][\A k \in Keys :
          k \notin DOMAIN pending_packets'
              => /\ rx.pc = "decode"
                 /\ IsAckFor(rx.buf, k)
                 /\ rx'.pc = "recv"]_vars

C4_Witness ==
    /\ \E k \in Inserted : k \notin Keys /\ <<k, TRUE>> \in ack_seen
    /\ \E j \in Keys : pending_packets[j].sent_time > inserted_at[j]
    /\ tx.pc = "done"

(* C5: on a lossless link with a round trip below RTO every entry of the   *)
(* ledger has its Ack on the way (or its first send is just being made),   *)
(* and no entry stays longer than 2 * RTO after its insert.                *)
C5_RemovedWithin2Rto ==
    \A k \in Keys :
        /\ now - inserted_at[k] <= 2 * RTO
        /\ \/ tx.pc = "send" /\ tx.seq = k
           \/ \E dg \in net : IsAckFor(dg.data, k)
           \/ rx.pc = "decode" /\ IsAckFor(rx.buf, k)

C5_Witness ==
    \E k \in Keys :
        /\ rx.pc = "decode"
        /\ IsAckFor(rx.buf, k)
        /\ now - inserted_at[k] = MaxRtt
        /\ \E j \in Inserted : j \notin Keys /\ <<j, TRUE>> \in ack_seen

Age(k) == now - pending_packets[k].sent_time

Collected == {rtx.retransmits[i].seq : i \in DOMAIN rtx.retransmits}

(* A step of the retransmission task out of its sleep: nothing but its own *)
(* locals (and the outputs of the last step) changes.                      *)
SweepStep ==
    /\ rtx.pc = "sleep"
    /\ UNCHANGED <<now, pending_packets, active_peer, tx_seq, tx, rx, net,
                   tun_written, inserted_at, handed, ack_seen>>

(* C6: a sweep collects exactly the entries older than RTO = 200 ms: not   *)
(* an entry aged 199 ms or 200 ms, and every entry aged 201 ms or more     *)
(* (which it then retransmits if the peer is known).                       *)
C6_SweepSelectsOlderThanRto ==
    [][SweepStep =>
          LET old == {k \in Keys : Age(k) >= 201}
          IN  IF old # {} /\ active_peer # None
              THEN /\ rtx'.pc = "send"
                   /\ {rtx'.retransmits[i].seq : i \in DOMAIN rtx'.retransmits}
                          = old
                   /\ \A k \in Keys :
                          Age(k) \in {199, 200} =>
                              \A i \in DOMAIN rtx'.retransmits :
                                  rtx'.retransmits[i].seq # k
              ELSE rtx' = RtxIdle]_vars

C6_Witness ==
    /\ rtx.pc = "send"
    /\ \E k \in Keys : Age(k) >= 201 /\ k \in Collected
    /\ \E j \in Keys : Age(j) = 200 /\ j \notin Collected

(* C7: the seqs drawn are 1, 2, 3, ... in this order: the counter starts   *)
(* at 1, every insert uses the value of the counter and advances it, so    *)
(* no key is inserted twice, also not after an Ack removed it.             *)
C7_SeqFresh ==
    /\ [](/\ Inserted = 1..(tx_seq - 1)
          /\ Keys \subseteq Inserted
          /\ \A k \in Keys :
                 deserialize(pending_packets[k].data).val.header.seq = k)
    /\ [][/\ tx_seq' >= tx_seq
          /\ \A k \in DOMAIN pending_packets' \ Keys :
                 /\ k = tx_seq
                 /\ k \notin Inserted
                 /\ tx_seq' = k + 1]_vars

C7_Witness ==
    /\ 2 \in Keys
    /\ 1 \in Inserted
    /\ 1 \notin Keys

(* C8: the RX loop handles a datagram that fails wire decode without       *)
(* sending anything, without writing to the TUN device and without         *)
(* touching the ledger, and returns to recv_from.                          *)
C8_UndecodableDropped ==
    [][/\ (rx.pc = "recv" /\ rx'.pc = "decode" /\ ~deserialize(rx'.buf).ok)
            => /\ udp_out' = <<>>
               /\ tun_written' = tun_written
               /\ pending_packets' = pending_packets
       /\ (rx.pc = "decode" /\ rx' # rx /\ ~deserialize(rx.buf).ok)
            => /\ udp_out' = <<>>
               /\ tun_written' = tun_written
               /\ pending_packets' = pending_packets
               /\ rx'.pc = "recv"]_vars

C8_Witness ==
    /\ rx.pc = "decode"
    /\ ~deserialize(rx.buf).ok
    /\ Keys # {}

(* C9 as stated: while the ledger holds WINDOW_SIZE entries the TX loop    *)
(* only sleeps and re-checks: it reads nothing, draws no seq, inserts      *)
(* nothing and sends no new Transport frame.                               *)
C9_FullOnlySleeps ==
    Full => tx.pc \in {"gate", "gate_sleep"}

(* C9 amended: while the ledger holds WINDOW_SIZE entries the TX loop      *)
(* reads nothing, draws no seq and inserts nothing; the one frame it still *)
(* hands to the socket is the frame whose insert filled the ledger; apart  *)
(* from that it sleeps and re-checks.  A packet that was read is never     *)
(* discarded for a full ledger, and once the ledger is below WINDOW_SIZE   *)
(* the sleeping TX loop gets back to reading.                              *)
C9_Backpressure ==
    /\ [](Full => /\ tx.pc \in {"gate", "gate_sleep", "send"}
                  /\ tx.pc = "send" => tx.seq = tx_seq - 1 /\ tx.seq \in Keys)
    /\ [](tx.pc \in {"read", "jitter"} => ~Full)
    /\ [][Full /\ tx' # tx
            => /\ tx_seq' = tx_seq
               /\ DOMAIN pending_packets' \subseteq Keys
               /\ tx'.pc \in {"gate", "gate_sleep"}]_vars
    /\ [][(tx.pc = "jitter" /\ tx' # tx) => tx_seq \in DOMAIN pending_packets']_vars
    /\ ((tx.pc = "gate_sleep" /\ ~Full) ~> tx.pc = "read")

C9_Witness ==
    /\ tx.pc = "read"
    /\ tx_seq = WINDOW_SIZE + 1
    /\ 1 \in Keys
    /\ <<WINDOW_SIZE, TRUE>> \in ack_seen

(* C10 as stated: k is a key iff its Transport frame has been handed to    *)
(* the socket and no Ack for k has been observed.                          *)
C10_KeyIffHandedAndNoAck ==
    \A k \in 1..(MaxSeq + 1) :
        k \in Keys <=> (k \in handed /\ \A b \in BOOLEAN : <<k, b>> \notin ack_seen)

(* C10 amended: k is a key iff the TX loop has inserted k and the RX loop  *)
(* has processed no Ack for k since that insert.                           *)
C10_KeyIffInsertedAndNoAckSince ==
    \A k \in 1..(MaxSeq + 1) :
        k \in Keys <=> (k \in Inserted /\ <<k, TRUE>> \notin ack_seen)

C10_Witness ==
    /\ 1 \in Keys
    /\ <<1, FALSE>> \in ack_seen
    /\ 1 \in handed
    /\ 2 \in Inserted
    /\ <<2, TRUE>> \in ack_seen

(* C11: when the seal fails in a TX iteration the frame is dropped         *)
(* (nothing inserted, nothing sent), a Log event is emitted and the TX     *)
(* loop goes on with its next iteration.  The code unwraps the result of   *)
(* encrypt (main.rs line 190), so the task panics instead.                 *)
C11_SealFailureDropsAndContinues ==
    [][(tx.pc = "jitter" /\ tx' # tx /\ tx'.pc # "send")
          => /\ pending_packets' = pending_packets
             /\ tx_seq' = tx_seq
             /\ udp_out' = <<>>
             /\ \E i \in DOMAIN stats' : stats'[i].kind = "Log"
             /\ tx'.pc = "gate"]_vars

(* C12: the peer cell leaves None only on a received datagram that wire-   *)
(* decodes, and then holds the source of that datagram.  The RX loop sets  *)
(* the cell before it decodes (main.rs lines 241-250), so this fails.      *)
C12_KnownOnlyOnDecoded ==
    [][(active_peer = None /\ active_peer' # None)
          => /\ deserialize(rx'.buf).ok
             /\ active_peer' = rx'.src_addr]_vars

(* C13 as stated: every Transport frame the TX loop hands to the socket    *)
(* and every retransmission goes to the address the peer cell holds at     *)
(* the moment of the send.                                                 *)
C13_SendsToCurrentPeer ==
    [][/\ (tx.pc = "send" /\ tx' # tx)
            => Len(udp_out') = 1 /\ udp_out'[1].dst = active_peer
       /\ (rtx.pc = "send" /\ rtx' # rtx)
            => Len(udp_out') = 1 /\ udp_out'[1].dst = active_peer]_vars

(* C13 amended: a Transport frame goes to the address the TX loop read     *)
(* from the peer cell when it took the packet from the TUN device (before  *)
(* the jitter sleep), and the retransmissions of one sweep go to the       *)
(* address the task read from the cell at the start of that sweep; the     *)
(* cell is not read again before the send.                                 *)
C13_SendsToSnapshot ==
    [][/\ (tx.pc = "read" /\ tx'.pc = "jitter") => tx'.target = active_peer
       /\ (tx.pc \in {"jitter", "send"} /\ tx'.pc \in {"jitter", "send"})
            => tx'.target = tx.target
       /\ (tx.pc = "send" /\ tx' # tx)
            => udp_out' = <<[data |-> tx.encoded, dst |-> tx.target]>>
       /\ (rtx.pc = "sleep" /\ rtx'.pc = "send")
            => rtx'.remote_addr = active_peer
       /\ (rtx.pc # "sleep" /\ rtx'.pc # "sleep")
            => rtx'.remote_addr = rtx.remote_addr
       /\ (rtx.pc = "send" /\ rtx' # rtx)
            => udp_out' = <<[data |-> Head(rtx.retransmits).data,
                             dst |-> rtx.remote_addr]>>]_vars

(* A Transport frame has just gone to an address the cell no longer holds *)
C13_Witness ==
    /\ Len(udp_out) = 1
    /\ udp_out[1].dst # active_peer
    /\ deserialize(udp_out[1].data).ok
    /\ deserialize(udp_out[1].data).val.header.frame_type = Transport
    /\ active_peer = "M"

(* C14: a datagram that decodes as a Transport frame with seq s from src   *)
(* makes the RX loop send exactly one Ack (seq 0, ack_num s, no payload)   *)
(* to src, whether or not the payload then opens and decompresses; when    *)
(* it does not, nothing is written to the TUN device and nothing else is   *)
(* put out.  Nothing is written to the TUN device but an opened payload.   *)
C14_AckBeforeOpen ==
    [][/\ (rx.pc = "decode" /\ rx' # rx /\ deserialize(rx.buf).ok
             /\ deserialize(rx.buf).val.header.frame_type = Transport)
            => /\ rx'.pc = "ack_send"
               /\ udp_out' = <<>>
               /\ tun_written' = tun_written
       /\ (rx.pc = "ack_send" /\ rx' # rx)
            => LET frame == deserialize(rx.buf).val
                   opened == decrypt(frame.payload)
                   plain == IF opened.ok THEN adaptive_decompress(opened.val)
                            ELSE Err
                   sent == deserialize(udp_out'[1].data)
               IN  /\ Len(udp_out') = 1
                   /\ udp_out'[1].dst = rx.src_addr
                   /\ sent.ok
                   /\ sent.val.header.frame_type = Ack
                   /\ sent.val.header.seq = 0
                   /\ sent.val.header.ack_num = frame.header.seq
                   /\ sent.val.payload = <<>>
                   /\ tun_written' = tun_written
                   /\ pending_packets' = pending_packets
                   /\ IF plain.ok
                      THEN rx'.pc = "tun_write" /\ rx'.plain = plain.val
                      ELSE rx'.pc = "recv" /\ stats' = <<>>
       /\ tun_written' # tun_written
            => /\ rx.pc = "tun_write"
               /\ AeadOpens(rx.buf)
               /\ udp_out' = <<>>]_vars

(* The Ack for a frame from M whose payload does not open has gone out *)
C14_Witness ==
    /\ udp_out = <<[data |-> serialize(new_ack(0, 2)), dst |-> "M"]>>
    /\ rx.pc = "recv"
    /\ tun_written # <<>>

(* C15: the step in which the RX loop processes an Ack frame with          *)
(* ack_num = k, whatever its source, removes the entry keyed k if there is *)
(* one and leaves every other entry, the counter and the TUN device as     *)
(* they are; it sends nothing, and with k absent the ledger is unchanged.  *)
C15_AckRemovesExactlyItsKey ==
    [][/\ \A k \in 0..(MaxSeq + 1) :
          (rx.pc = "decode" /\ rx' # rx /\ IsAckFor(rx.buf, k))
              => /\ DOMAIN pending_packets' = Keys \ {k}
                 /\ \A j \in Keys \ {k} :
                        pending_packets'[j] = pending_packets[j]
                 /\ k \notin Keys => pending_packets' = pending_packets
                 /\ tx_seq' = tx_seq
                 /\ tun_written' = tun_written
                 /\ udp_out' = <<>>
                 /\ rx'.pc = "recv"
       /\ (rx.pc = "recv" /\ rx'.pc = "decode"
             /\ \E k \in 0..(MaxSeq + 1) : IsAckFor(rx'.buf, k))
            => /\ pending_packets' = pending_packets
               /\ tx_seq' = tx_seq
               /\ tun_written' = tun_written
               /\ udp_out' = <<>>]_vars

(* An Ack for a key present has removed it and left the other entry; an    *)
(* Ack from another address for a seq never sent has been processed too.   *)
C15_Witness ==
    /\ <<1, TRUE>> \in ack_seen
    /\ <<MaxSeq + 1, FALSE>> \in ack_seen
    /\ 1 \notin Keys
    /\ 2 \in Keys
    /\ rx.pc = "recv"

(* A send_to of the retransmission task has just failed *)
RtxSendFailed == \E i \in DOMAIN stats' : stats'[i] = Log("RTX::Err", "")

(* C16: for an entry collected by a sweep: a successful send is followed   *)
(* by the refresh of its sent_time to the current time if the entry is     *)
(* still in the ledger (an entry gone in between is not put back), and a   *)
(* sweep collects it again only when more than RTO has passed since; a     *)
(* failed send is logged, leaves the ledger as it is and is followed by no *)
(* refresh, so the entry, still older than RTO, is collected again by any  *)
(* later sweep that finds it in the ledger.                                *)
C16_RefreshOnSuccessOnly ==
    [][/\ (rtx.pc = "send" /\ rtx' # rtx)
            => LET k == Head(rtx.retransmits).seq
               IN  /\ pending_packets' = pending_packets
                   /\ IF RtxSendFailed
                      THEN /\ rtx'.pc # "refresh"
                           /\ k \in Keys => k \in Expired(now)
                      ELSE /\ rtx'.pc = "refresh"
                           /\ Head(rtx'.retransmits).seq = k
                           /\ stats' = <<>>
       /\ (rtx.pc = "refresh" /\ rtx' # rtx)
            => LET k == Head(rtx.retransmits).seq
               IN  /\ DOMAIN pending_packets' = Keys
                   /\ \A j \in Keys \ {k} :
                          pending_packets'[j] = pending_packets[j]
                   /\ k \in Keys =>
                        /\ pending_packets'[k].sent_time = now
                        /\ pending_packets'[k].data = pending_packets[k].data
       /\ (rtx.pc = "sleep" /\ rtx'.pc = "send")
            => \A i \in DOMAIN rtx'.retransmits :
                   now - pending_packets[rtx'.retransmits[i].seq].sent_time
                       > RTO
       /\ (rtx.pc # "refresh" /\ pending_packets' # pending_packets)
            => \A k \in Keys \cap DOMAIN pending_packets' :
                   pending_packets'[k] = pending_packets[k]]_vars

(* An entry refreshed by a retransmission is being retransmitted again,    *)
(* and the send before it has failed.                                      *)
C16_Witness ==
    /\ rtx.pc = "send"
    /\ \E k \in Keys :
          /\ Head(rtx.retransmits).seq = k
          /\ pending_packets[k].sent_time = RTO + 1
          /\ now = 2 * (RTO + 1)
    /\ stats = <<Log("RTX::Err", "")>>

(* The retransmission task has sent the frame of entry k: the send_to has  *)
(* succeeded and the refresh of k is due, or it has just failed.           *)
Retransmitted(k) ==
    \/ rtx.pc = "refresh" /\ Head(rtx.retransmits).seq = k
    \/ /\ k \in Keys
       /\ Len(udp_out) = 1
       /\ udp_out[1].data = pending_packets[k].data
       /\ stats = <<Log("RTX::Err", "")>>

(* C17: a first send of a Transport frame that fails is logged, leaves the *)
(* entry in the ledger and lets the TX loop go on with its next iteration; *)
(* the peer is known as long as there is an entry, and an entry whose      *)
(* first send is over and whose age exceeds RTO gets its frame sent by the *)
(* retransmission task, unless an Ack removes it first.                    *)
C17_FirstSendFailureRetried ==
    /\ [][(tx.pc = "send" /\ tx' # tx)
            => /\ pending_packets' = pending_packets
               /\ tx'.pc = "gate"
               /\ tx.seq \in handed'
               /\ \/ stats' = <<Log("UDP::SendErr", "")>>
                  \/ stats' = <<Throughput(Len(tx.packet), 0)>>]_vars
    /\ [](Keys # {} => active_peer # None)
    /\ \A k \in 1..MaxSeqT :
          (k \in Keys /\ k \in handed /\ Age(k) > RTO)
              ~> (k \notin Keys \/ Retransmitted(k))

(* The first send of frame 1 is over, the TX loop is at its next packet,   *)
(* and the retransmission task has sent frame 1 for the first time.        *)
C17_Witness ==
    /\ rtx.pc = "refresh"
    /\ Head(rtx.retransmits).seq = 1
    /\ 1 \in Keys
    /\ 1 \in handed
    /\ pending_packets[1].sent_time = inserted_at[1]
    /\ net = {}
    /\ tx.pc = "jitter"

(* C19: a packet read from the TUN device while the peer cell is unset is  *)
(* discarded: the counter stays, the ledger stays, nothing is sent, and    *)
(* the TX loop is back at the top of its loop.  So as long as the cell is  *)
(* unset no seq has been drawn, and a packet on its way to the socket has  *)
(* a target.                                                               *)
C19_UnsetPeerDiscards ==
    /\ [][(tx.pc = "read" /\ tx' # tx /\ active_peer = None
             /\ tx'.pc \notin {"done", "read_err_sleep"})
            => /\ tx'.pc = "gate"
               /\ tx'.target = None
               /\ tx_seq' = tx_seq
               /\ pending_packets' = pending_packets
               /\ udp_out' = <<>>
               /\ handed' = handed
               /\ net' = net]_vars
    /\ [](active_peer = None => tx_seq = 1 /\ Keys = {} /\ handed = {})
    /\ [](tx.pc \in {"jitter", "send"} => tx.target # None)

(* The packet <<69>> has been read with the cell unset and discarded: it   *)
(* is in the buffer, the TX loop is at its gate, no seq has been drawn.    *)
C19_Witness ==
    /\ active_peer = None
    /\ tx.pc = "gate"
    /\ tx.packet = <<69>>
    /\ tx_seq = 1
    /\ Keys = {}
    /\ rx.pc = "recv_err_sleep"

(* C20: with no Ack ever arriving, a ledger that has reached WINDOW_SIZE   *)
(* entries keeps exactly these entries, and the TX loop draws no seq and   *)
(* is never again at its read.  Every sweep collects every entry older     *)
(* than RTO and sends the collected frames to the peer one after the       *)
(* other, in the order collected, whatever was sent before; and the first  *)
(* and the last entry of that order are retransmitted each time their age  *)
(* exceeds RTO (so are the entries in between).                            *)
C20_DeadPeerParksWindow ==
    /\ [][Full => /\ Cardinality(DOMAIN pending_packets') = WINDOW_SIZE
                  /\ DOMAIN pending_packets' = Keys
                  /\ \A k \in Keys :
                         pending_packets'[k].data = pending_packets[k].data
                  /\ tx_seq' = tx_seq
                  /\ tx'.pc \in {"gate", "gate_sleep", "send"}
                  /\ tx'.pc = "send" => tx' = tx]_vars
    /\ [][/\ (Full /\ rtx.pc = "sleep" /\ rtx' # rtx)
               => /\ rtx'.pc = "send"
                  /\ {rtx'.retransmits[i].seq : i \in DOMAIN rtx'.retransmits}
                         = {k \in Keys : Age(k) > RTO}
          /\ (Full /\ rtx.pc = "send" /\ rtx' # rtx)
               => LET head == Head(rtx.retransmits)
                  IN  /\ udp_out' =
                             <<[data |-> pending_packets[head.seq].data,
                                dst |-> active_peer]>>
                      /\ \/ /\ rtx'.pc = "refresh"
                            /\ rtx'.retransmits = rtx.retransmits
                         \/ /\ stats' = <<Log("RTX::Err", "")>>
                            /\ rtx'.retransmits = Tail(rtx.retransmits)
          /\ (Full /\ rtx.pc = "refresh" /\ rtx' # rtx)
               => rtx'.retransmits = Tail(rtx.retransmits)]_vars
    /\ \A k \in {1, WINDOW_SIZE} :
          (Full /\ k \in Keys /\ Age(k) > RTO) ~> Retransmitted(k)

(* Third round: entry WINDOW_SIZE, refreshed in the second round, has been *)
(* sent again; entry 1 has failed to be sent in every round; the TX loop   *)
(* sleeps at its gate.                                                     *)
C20_Witness ==
    /\ Full
    /\ now = 3 * (RTO + 1)
    /\ rtx.pc = "refresh"
    /\ Head(rtx.retransmits).seq = WINDOW_SIZE
    /\ pending_packets[WINDOW_SIZE].sent_time = 2 * (RTO + 1)
    /\ pending_packets[1].sent_time = 0
    /\ tx.pc = "gate_sleep"
    /\ tx_seq = WINDOW_SIZE + 1

(* The suspension points of the three tasks: the positions at which the    *)
(* task has handed control to the runtime (tap read, UDP send, UDP recv,   *)
(* TUN write, and the sleeps).                                             *)
TxSuspended == tx.pc \in {"gate_sleep", "read", "read_err_sleep", "jitter",
                          "send"}
RxSuspended == rx.pc \in {"recv", "recv_err_sleep", "ack_send", "tun_write"}
RtxSuspended == rtx.pc \in {"sleep", "send"}

(* C18: a task suspended at a suspension point holds neither the ledger    *)
(* lock nor the peer-cell lock; while the retransmission task is at a      *)
(* send it holds no lock and sends from its own copies of the candidates,  *)
(* which the ledger may have lost or refreshed since.                      *)
C18_NoLockAcrossSuspension ==
    /\ TxSuspended => tx.held = {}
    /\ RxSuspended => rx.held = {}
    /\ RtxSuspended => rtx.held = {}
    /\ rtx.pc = "send" =>
          /\ rtx.retransmits # <<>>
          /\ \A i \in DOMAIN rtx.retransmits :
                 /\ rtx.retransmits[i].seq \in DOMAIN inserted_at
                 /\ rtx.retransmits[i].seq \in Keys =>
                        rtx.retransmits[i].data =
                            pending_packets[rtx.retransmits[i].seq].data

(* The retransmission task is suspended in the send of a swept entry while *)
(* the TX loop holds the ledger lock and the RX loop waits for it with the *)
(* Ack of that entry.                                                      *)
C18_Witness ==
    /\ rtx.pc = "send"
    /\ tx.pc = "gate_locked"
    /\ rx.pc = "ack"
    /\ ~Free("ledger")

(* C21: a read of the TUN device ends in one of three ways: a packet is    *)
(* stored and the loop goes on; the loop is left at once with nothing      *)
(* emitted (0 bytes); or TUN::ReadErr is logged and the loop is left after *)
(* the error sleep.  Once the TX loop is left it stays left: no seq is     *)
(* drawn and no key inserted.  The other two tasks go on: an Ack decoded   *)
(* by RX still removes its entry, and an entry older than RTO is still     *)
(* retransmitted unless an Ack removes it first.                           *)
C21_TxTerminates ==
    /\ [][(tx.pc = "read" /\ tx' # tx)
            => /\ tx'.pc \in {"jitter", "gate", "done", "read_err_sleep"}
               /\ tx'.pc \in {"jitter", "gate"} => tx'.packet # <<>>
               /\ tx'.pc = "done" => stats' = <<>>
               /\ tx'.pc = "read_err_sleep"
                     => stats' = <<Log("TUN::ReadErr", "")>>
               /\ tx_seq' = tx_seq
               /\ pending_packets' = pending_packets]_vars
    /\ [][(tx.pc = "read_err_sleep" /\ tx' # tx) => tx'.pc = "done"]_vars
    /\ tx.pc = "read_err_sleep" ~> tx.pc = "done"
    /\ [][tx.pc = "done"
            => /\ tx' = tx
               /\ tx_seq' = tx_seq
               /\ DOMAIN pending_packets' \subseteq Keys
               /\ inserted_at' = inserted_at]_vars
    /\ [][(tx.pc = "done" /\ rx.pc = "decode" /\ rx' # rx)
            => \A k \in Keys : IsAckFor(rx.buf, k) => k \notin Keys']_vars
    /\ \A k \in 1..MaxSeqE :
          (tx.pc = "done" /\ k \in Keys /\ Age(k) > RTO)
              ~> (k \notin Keys \/ Retransmitted(k))

(* The TX loop has ended with frame 1 in the ledger; the retransmission    *)
(* task is sending frame 1 again and the RX loop has received its Ack.     *)
C21_Witness ==
    /\ tx.pc = "done"
    /\ 1 \in Keys
    /\ rx.pc = "decode"
    /\ IsAckFor(rx.buf, 1)
    /\ rtx.pc = "send"
    /\ Head(rtx.retransmits).seq = 1

(* C22: no step of the retransmission task changes the key set of the      *)
(* ledger; a refresh whose entry an Ack has removed since the sweep        *)
(* collected it leaves the ledger as it is.  A key enters the ledger only  *)
(* by the insert of the TX loop, which uses the seq just drawn, so a key   *)
(* that has left the ledger never comes back.                              *)
C22_RetransmitterNeverAdds ==
    /\ [][rtx' # rtx => DOMAIN pending_packets' = Keys]_vars
    /\ [][(rtx.pc = "refresh" /\ rtx' # rtx
              /\ Head(rtx.retransmits).seq \notin Keys)
            => pending_packets' = pending_packets]_vars
    /\ [][\A k \in DOMAIN pending_packets' \ Keys :
              /\ tx.pc = "jitter"
              /\ tx'.pc = "send"
              /\ k = tx_seq
              /\ k \notin Inserted]_vars
    /\ [][\A k \in Inserted \ Keys : k \notin DOMAIN pending_packets']_vars

(* The sweep has collected frame 1 and sent it again; the Ack of frame 1   *)
(* was handled in between, and the refresh is still to come.               *)
C22_Witness ==
    /\ rtx.pc = "refresh"
    /\ Head(rtx.retransmits).seq = 1
    /\ 1 \notin Keys
    /\ <<1, TRUE>> \in ack_seen
    /\ rx.pc = "recv"

C24_PeerNeverUnset ==
    /\ [][active_peer # None => active_peer' # None]_vars
    /\ [][active_peer' # active_peer
            => /\ rx.pc = "recv"
               /\ rx'.pc = "decode"
               /\ active_peer' = rx'.src_addr
               /\ \E dg \in net \cup FromPeer \cup StrayAcks \cup Foreign :
                      dg.src = active_peer' /\ dg.data = rx'.buf
               /\ tx' = tx
               /\ rtx' = rtx]_vars
    /\ [][(tx' # tx \/ rtx' # rtx) => active_peer' = active_peer]_vars

(* The cell held B at bring-up and the TX loop has read it; the RX loop    *)
(* has since stored the source M of a datagram in the cell.                *)
C24_Witness ==
    /\ active_peer = "M"
    /\ rx.pc = "decode"
    /\ rx.src_addr = "M"
    /\ stats = <<Log("NET: Peer roamed to", "M")>>
    /\ tx.pc = "jitter"
    /\ tx.target = "B"

=============================================================================
